---------------------------- MODULE Spec2Model ----------------------------
(***************************************************************************)
(* Model of the differential-drive Gazebo plugin                           *)
(* src/src/diffdrive_plugin.cpp (DiffDrivePlugin).                         *)
(*                                                                         *)
(* Threads: the simulation thread (Load, UpdateChild and what it calls),   *)
(* the callback-queue thread (QueueThread, which runs cmdVelCallback), and *)
(* the caller of FiniChild.  x_ and rot_ are shared between the first two  *)
(* under the mutex `lock`; alive_ is shared without synchronisation.       *)
(*                                                                         *)
(* Numbers.  The code computes in doubles; the model computes exactly, on  *)
(* integers, in scaled units chosen so that every quotient the code forms  *)
(* on the model's inputs is exact:                                         *)
(*   - angles are counted in eighths of a turn (pi/4), pi is HalfTurn;     *)
(*   - wheelSeparation is counted in units of 4/pi lengths, so that        *)
(*     angle * wheelSeparation is a length and length / wheelSeparation is *)
(*     an angle, with no further factor;                                   *)
(*   - the host moves the wheels by even lengths per step, so the true     *)
(*     heading stays on quarter turns, where cos and sin are integers;     *)
(*   - the noisy heading falls on any eighth of a turn, where cos and sin  *)
(*     are multiples of sqrt(2)/2: a noisy position coordinate is a pair   *)
(*     <<a, b>> standing for (a + b*sqrt(2)) / 4.                          *)
(* A double that is infinite or NaN (a division by a zero wheelSeparation  *)
(* or wheelDiameter, and everything computed from it) is the one absorbing *)
(* value NonFinite.  The magnitudes of the program's constants (0.34,      *)
(* 1e-6, ...) are not kept, only their roles.                              *)
(***************************************************************************)
EXTENDS Integers, Sequences, FiniteSets, TLC

\* ------------------------------------------------------------------ bounds

\* UpdateChild calls per behaviour
MaxSteps == 2
\* command messages the external source sends per behaviour
MaxCmds == 2

\* ---------------------------------------------------------------- numbers

NonFinite == -(10^6)

Fin(a) == a # NonFinite

Abs(a) == IF a < 0 THEN -a ELSE a

Plus(a, b) == IF Fin(a) /\ Fin(b) THEN a + b ELSE NonFinite

Minus(a, b) == IF Fin(a) /\ Fin(b) THEN a - b ELSE NonFinite

Times(a, b) == IF Fin(a) /\ Fin(b) THEN a * b ELSE NonFinite

\* a / b in doubles: non-finite when b is 0; the model's inputs keep every
\* other quotient exact (an inexact one matches no case and stops TLC).
Over(a, b) ==
  IF ~Fin(a) \/ ~Fin(b) \/ b = 0 THEN NonFinite
  ELSE LET q == Abs(a) \div Abs(b)
           s == IF (a < 0) = (b < 0) THEN 1 ELSE -1
       IN CASE q * Abs(b) = Abs(a) -> s * q

\* fabs
FAbs(a) == IF Fin(a) THEN Abs(a) ELSE NonFinite

\* std::max(a, b) is (a < b) ? b : a; a comparison with NaN is false
StdMax(a, b) == IF ~Fin(a) THEN NonFinite ELSE IF a < b THEN b ELSE a

\* pi, in eighths of a turn
HalfTurn == 4

\* angles::normalize_angle: into (-pi, pi]
normalize_angle(a) ==
  IF ~Fin(a) THEN NonFinite
  ELSE LET r == a % (2 * HalfTurn)
       IN IF r > HalfTurn THEN r - 2 * HalfTurn ELSE r

\* cos and sin of a heading on a quarter turn (the true heading)
cos(a) ==
  IF ~Fin(a) THEN NonFinite
  ELSE CASE a % 8 = 0 -> 1
         [] a % 8 = 2 -> 0
         [] a % 8 = 4 -> -1
         [] a % 8 = 6 -> 0

sin(a) == cos(Minus(a, 2))

\* cos and sin of a heading on an eighth of a turn (the noisy heading), as
\* <<p, q>> standing for p + q * sqrt(2)/2
cos8(a) ==
  LET r == a % 8
  IN CASE r = 0 -> <<1, 0>>
       [] r = 1 -> <<0, 1>>
       [] r = 2 -> <<0, 0>>
       [] r = 3 -> <<0, -1>>
       [] r = 4 -> <<-1, 0>>
       [] r = 5 -> <<0, -1>>
       [] r = 6 -> <<0, 0>>
       [] r = 7 -> <<0, 1>>

sin8(a) == cos8(a - 2)

NonFinitePair == <<NonFinite, NonFinite>>

FinPair(p) == Fin(p[1]) /\ Fin(p[2])

\* (twice / 2) * c, for c a cos8 or sin8 value, in quarters:
\* (twice/2) * (p + q*sqrt(2)/2) = (2*twice*p + twice*q*sqrt(2)) / 4
HalfTimesTrig(twice, c) ==
  IF ~Fin(twice) THEN NonFinitePair
  ELSE <<2 * twice * c[1], twice * c[2]>>

PairPlus(p, d) ==
  IF FinPair(p) /\ FinPair(d) THEN <<p[1] + d[1], p[2] + d[2]>>
  ELSE NonFinitePair

\* --------------------------------------------------------------- constants

\* static double const min_variance = 1e-6, as one length
min_variance == 1

\* the defaults Load applies to an absent element
DefaultSeparation == 1
DefaultDiameter == 2
DefaultTorque == 5
DefaultAlpha == 0
DefaultRate == 50

\* World::GetPhysicsEngine()->GetStepTime(), one time unit per step
StepTime == 1

\* enum { RIGHT, LEFT }
RIGHT == 0
LEFT == 1

\* ------------------------------------------------------------------ inputs

\* The <plugin> elements Load is given: a record holding the elements that
\* are present.  Geometry that is zero or negative is among them.
Sdfs ==
  { [leftJoint |-> "left_joint"],
    [wheelSeparation |-> 1, wheelDiameter |-> 2, alpha |-> 1, updateRate |-> 50],
    [wheelSeparation |-> 1, alpha |-> 2, updateRate |-> 0, torque |-> 3],
    [wheelSeparation |-> 0],
    [wheelSeparation |-> -1, alpha |-> 1],
    [wheelDiameter |-> 0],
    [wheelDiameter |-> -2] }

\* the velocity commands the external source sends: no two agree in either
\* component, and none has a zero component
Cmds == { [linear |-> 1, angular |-> 2], [linear |-> 3, angular |-> -2] }

ZeroCmd == [linear |-> 0, angular |-> 0]

\* joints[i]->GetVelocity(0), as the host's physics leaves it
JointVels == {0, 2}

\* what ros::Time::now() advances by between two steps (ms)
TimeAdvances == {20, 50}

\* the standard normal variates rng_ yields
Draws == {-1, 0, 1}

\* The same three inputs for the specification of the command path, whose
\* claims do not read the odometry: one wheel velocity, one clock advance,
\* one variate.
SteadyVels == {2}
SteadyAdvances == {50}
SteadyDraws == {1}

\* what the uninitialised members hold before Load assigns them
Garbage == {0, 6}

VARIABLES
  phase,           \* "constructed", "running", "failed"
  wheelSeparation, wheelDiameter, torque, alpha, rate_,
  x_, rot_, wheelSpeed, alive_,
  lock,            \* "free", "step", "cb": who holds the mutex
  queue_,          \* the callbacks pending in queue_ (subscription depth 1)
  queueEnabled,    \* queue_ not disabled
  nodeOk,          \* rosnode_->ok()
  qpc,             \* QueueThread's position
  cbMsg,           \* the message the running cmdVelCallback was given
  upc,             \* UpdateChild's position
  vr, va,          \* GetPositionCmd's locals
  fpc,             \* FiniChild's position
  jointVel,        \* joints[i]->GetVelocity(0)
  jointCmd,        \* what SetVelocity and SetMaxForce last set, per joint
  worldPose,       \* parent's world pose: <<x, y, yaw>>
  now,             \* ros::Time::now(), ms
  odomPose, odomVel,
  last_time_, last_true_pos_, last_true_yaw_, last_odom_pos_, last_odom_yaw_,
  published,       \* the messages the last publish_odometry call sent
  drawn,           \* the variates rng_ gave the last generateError: <<left, right>>
  latest,          \* history: the command cmdVelCallback last stored
  inFlightAtFini,  \* history: a cmdVelCallback was running when FiniChild began
  steps, sent      \* counters the bounds cap

cfgVars == <<wheelSeparation, wheelDiameter, torque, alpha, rate_>>
cmdVars == <<x_, rot_, latest>>
finiVars == <<fpc, inFlightAtFini>>
queueVars == <<queue_, queueEnabled, nodeOk, qpc, cbMsg, sent>>
stepVars == <<upc, vr, va, wheelSpeed, steps>>
hostVars == <<jointVel, jointCmd, worldPose, now>>
odomVars == <<odomPose, odomVel, last_time_, last_true_pos_, last_true_yaw_,
              last_odom_pos_, last_odom_yaw_, published, drawn>>
vars == <<phase, cfgVars, cmdVars, alive_, lock, queueVars, stepVars, finiVars,
          hostVars, odomVars>>

\* ------------------------------------------------------------ construction

HasElement(sdf, name) == name \in DOMAIN sdf

\* _sdf->GetElement(name)->GetValueDouble(), or the default with a warning
ElementOr(sdf, name, default) ==
  IF HasElement(sdf, name) THEN sdf[name] ELSE default

Origin == <<0, 0>>

OriginPair == <<<<0, 0>>, <<0, 0>>>>

\* The constructor zeroes the pose history; ros::Time's own constructor
\* zeroes last_time_; every other member is left uninitialised.
Init ==
  /\ phase = "constructed"
  /\ \E g \in Garbage :
       /\ wheelSeparation = g /\ wheelDiameter = g /\ torque = g
       /\ alpha = g /\ rate_ = g
       /\ x_ = g /\ rot_ = g
       /\ wheelSpeed = [i \in {RIGHT, LEFT} |-> g]
       /\ odomPose = <<g, g, g>> /\ odomVel = <<g, g, g>>
  /\ alive_ \in BOOLEAN
  /\ lock = "free"
  /\ queue_ = <<>> /\ queueEnabled = TRUE /\ nodeOk = FALSE
  /\ qpc = "off" /\ cbMsg = ZeroCmd
  /\ upc = "off" /\ vr = 0 /\ va = 0
  /\ fpc = "none" /\ inFlightAtFini = FALSE
  /\ jointVel = [i \in {RIGHT, LEFT} |-> 0]
  /\ jointCmd = [i \in {RIGHT, LEFT} |-> [velocity |-> 0, maxForce |-> 0]]
  /\ worldPose = <<0, 0, 0>>
  /\ now = 0
  /\ last_time_ = 0
  /\ last_true_pos_ = Origin /\ last_true_yaw_ = 0
  /\ last_odom_pos_ = OriginPair /\ last_odom_yaw_ = 0
  /\ published = <<>> /\ drawn = <<0, 0>>
  /\ latest = ZeroCmd
  /\ steps = 0 /\ sent = 0

\* Load reads the geometry as given: no element's value is validated.
LoadSeparation(sdf) == ElementOr(sdf, "wheelSeparation", DefaultSeparation)

LoadDiameter(sdf) == ElementOr(sdf, "wheelDiameter", DefaultDiameter)

\* x_ = 0; rot_ = 0
LoadCommand == ZeroCmd

\* Load: the configuration, the zeroed command, the joints, the ROS node
\* and subscription, the zeroed odometry, the queue thread, the update event.
Load(sdf, hasLeft, hasRight) ==
  /\ phase = "constructed"
  /\ wheelSeparation' = LoadSeparation(sdf)
  /\ wheelDiameter' = LoadDiameter(sdf)
  /\ torque' = ElementOr(sdf, "torque", DefaultTorque)
  /\ alpha' = ElementOr(sdf, "alpha", DefaultAlpha)
  /\ rate_' = ElementOr(sdf, "updateRate", DefaultRate)
  /\ wheelSpeed' = [i \in {RIGHT, LEFT} |-> 0]
  /\ x_' = LoadCommand.linear
  /\ rot_' = LoadCommand.angular
  /\ alive_' = TRUE
  /\ IF hasLeft /\ hasRight
     THEN /\ phase' = "running"
          /\ nodeOk' = TRUE
          /\ odomPose' = <<0, 0, 0>>
          /\ odomVel' = <<0, 0, 0>>
          /\ qpc' = "test"
          /\ upc' = "idle"
     ELSE \* gzthrow: Load is left before anything is started
          /\ phase' = "failed"
          /\ UNCHANGED <<nodeOk, odomPose, odomVel, qpc, upc>>
  /\ UNCHANGED <<latest, lock, queue_, queueEnabled, cbMsg, sent, vr, va, steps,
                 finiVars, hostVars, last_time_, last_true_pos_, last_true_yaw_,
                 last_odom_pos_, last_odom_yaw_, published, drawn>>

\* ----------------------------------------------------------- command intake

\* The external source publishes a command: with a subscription queue of
\* depth 1 the newest message replaces a pending one.  A disabled queue_, or
\* a node that was shut down, takes none.
Arrive(msg) ==
  /\ phase = "running"
  /\ sent < MaxCmds
  /\ sent' = sent + 1
  /\ queue_' = IF queueEnabled /\ nodeOk THEN <<msg>> ELSE queue_
  /\ UNCHANGED <<phase, cfgVars, cmdVars, alive_, lock, queueEnabled, nodeOk, qpc,
                 cbMsg, stepVars, finiVars, hostVars, odomVars>>

\* Mutant of Q_Test: the loop tests alive_ alone.
Q_TestAliveOnly ==
  /\ qpc = "test"
  /\ \E seen \in {alive_, TRUE} :
       qpc' = IF seen THEN "call" ELSE "exited"
  /\ UNCHANGED <<phase, cfgVars, cmdVars, alive_, lock, queue_, queueEnabled,
                 nodeOk, cbMsg, sent, stepVars, finiVars, hostVars, odomVars>>

\* while (alive_ && rosnode_->ok()): alive_ is read without synchronisation
\* while FiniChild may write it, so the read may miss the write.
Q_Test ==
  /\ qpc = "test"
  /\ \E seen \in {alive_, TRUE} :
       qpc' = IF seen /\ nodeOk THEN "call" ELSE "exited"
  /\ UNCHANGED <<phase, cfgVars, cmdVars, alive_, lock, queue_, queueEnabled,
                 nodeOk, cbMsg, sent, stepVars, finiVars, hostVars, odomVars>>

\* queue_.callAvailable(timeout): returns at once when disabled, after the
\* timeout when empty, and otherwise calls the pending callback.
Q_CallAvailable ==
  /\ qpc = "call"
  /\ IF queueEnabled /\ queue_ # <<>>
     THEN /\ cbMsg' = Head(queue_)
          /\ queue_' = Tail(queue_)
          /\ qpc' = "cb_lock"
     ELSE /\ qpc' = "test"
          /\ UNCHANGED <<cbMsg, queue_>>
  /\ UNCHANGED <<phase, cfgVars, cmdVars, alive_, lock, queueEnabled, nodeOk,
                 sent, stepVars, finiVars, hostVars, odomVars>>

\* Mutant of CB_Lock: the callback goes on without waiting for the mutex.
CB_LockNoWait ==
  /\ qpc = "cb_lock"
  /\ lock' = "cb"
  /\ qpc' = "cb_x"
  /\ UNCHANGED <<phase, cfgVars, cmdVars, alive_, queue_, queueEnabled, nodeOk,
                 cbMsg, sent, stepVars, finiVars, hostVars, odomVars>>

\* cmdVelCallback: lock.lock()
CB_Lock ==
  /\ qpc = "cb_lock"
  /\ lock = "free"
  /\ lock' = "cb"
  /\ qpc' = "cb_x"
  /\ UNCHANGED <<phase, cfgVars, cmdVars, alive_, queue_, queueEnabled, nodeOk,
                 cbMsg, sent, stepVars, finiVars, hostVars, odomVars>>

\* x_ = cmd_msg->linear.x
CB_WriteX ==
  /\ qpc = "cb_x"
  /\ x_' = cbMsg.linear
  /\ qpc' = "cb_rot"
  /\ UNCHANGED <<phase, cfgVars, rot_, latest, alive_, lock, queue_, queueEnabled,
                 nodeOk, cbMsg, sent, stepVars, finiVars, hostVars, odomVars>>

\* rot_ = cmd_msg->angular.z
CB_WriteRot ==
  /\ qpc = "cb_rot"
  /\ rot_' = cbMsg.angular
  /\ latest' = cbMsg
  /\ qpc' = "cb_unlock"
  /\ UNCHANGED <<phase, cfgVars, x_, alive_, lock, queue_, queueEnabled,
                 nodeOk, cbMsg, sent, stepVars, finiVars, hostVars, odomVars>>

\* Mutant of CB_Unlock: the callback returns without unlocking.
CB_UnlockForgotten ==
  /\ qpc = "cb_unlock"
  /\ qpc' = "test"
  /\ UNCHANGED <<phase, cfgVars, cmdVars, alive_, lock, queue_, queueEnabled,
                 nodeOk, cbMsg, sent, stepVars, finiVars, hostVars, odomVars>>

\* lock.unlock(), and back to QueueThread's loop
CB_Unlock ==
  /\ qpc = "cb_unlock"
  /\ lock' = "free"
  /\ qpc' = "test"
  /\ UNCHANGED <<phase, cfgVars, cmdVars, alive_, queue_, queueEnabled, nodeOk,
                 cbMsg, sent, stepVars, finiVars, hostVars, odomVars>>

InCallback == qpc \in {"cb_lock", "cb_x", "cb_rot", "cb_unlock"}

\* ------------------------------------------------------------------ FiniChild

\* alive_ = false
F_Alive ==
  /\ phase = "running"
  /\ fpc = "none"
  /\ alive_' = FALSE
  /\ fpc' = "clear"
  /\ inFlightAtFini' = InCallback
  /\ UNCHANGED <<phase, cfgVars, cmdVars, lock, queueVars, stepVars, hostVars,
                 odomVars>>

\* queue_.clear()
F_Clear ==
  /\ fpc = "clear"
  /\ queue_' = <<>>
  /\ fpc' = "disable"
  /\ UNCHANGED <<phase, cfgVars, cmdVars, alive_, lock, queueEnabled, nodeOk, qpc,
                 cbMsg, sent, stepVars, inFlightAtFini, hostVars, odomVars>>

\* queue_.disable()
F_Disable ==
  /\ fpc = "disable"
  /\ queueEnabled' = FALSE
  /\ fpc' = "shutdown"
  /\ UNCHANGED <<phase, cfgVars, cmdVars, alive_, lock, queue_, nodeOk, qpc,
                 cbMsg, sent, stepVars, inFlightAtFini, hostVars, odomVars>>

\* rosnode_->shutdown()
F_Shutdown ==
  /\ fpc = "shutdown"
  /\ nodeOk' = FALSE
  /\ fpc' = "join"
  /\ UNCHANGED <<phase, cfgVars, cmdVars, alive_, lock, queue_, queueEnabled, qpc,
                 cbMsg, sent, stepVars, inFlightAtFini, hostVars, odomVars>>

\* callback_queue_thread_.join(): returns once QueueThread has returned
F_Join ==
  /\ fpc = "join"
  /\ qpc = "exited"
  /\ fpc' = "done"
  /\ UNCHANGED <<phase, cfgVars, cmdVars, alive_, lock, queueVars, stepVars,
                 inFlightAtFini, hostVars, odomVars>>

\* ---------------------------------------------------------------- UpdateChild

\* The host's world loop: physics has left the joints at some velocity, the
\* clock has advanced, and the update event calls UpdateChild.
WorldUpdateStart(vels, advances) ==
  /\ phase = "running"
  /\ upc = "idle"
  /\ steps < MaxSteps
  /\ steps' = steps + 1
  /\ jointVel' \in [{RIGHT, LEFT} -> vels]
  /\ \E dt \in advances : now' = now + dt
  /\ upc' = "lock"
  /\ UNCHANGED <<phase, cfgVars, cmdVars, alive_, lock, queueVars, vr, va,
                 wheelSpeed, finiVars, jointCmd, worldPose, odomVars>>

\* GetPositionCmd: lock.lock()
G_Lock ==
  /\ upc = "lock"
  /\ lock = "free"
  /\ lock' = "step"
  /\ upc' = "read_x"
  /\ UNCHANGED <<phase, cfgVars, cmdVars, alive_, queueVars, vr, va, wheelSpeed,
                 steps, finiVars, hostVars, odomVars>>

\* vr = x_
G_ReadX ==
  /\ upc = "read_x"
  /\ vr' = x_
  /\ upc' = "read_rot"
  /\ UNCHANGED <<phase, cfgVars, cmdVars, alive_, lock, queueVars, va, wheelSpeed,
                 steps, finiVars, hostVars, odomVars>>

\* va = rot_
G_ReadRot ==
  /\ upc = "read_rot"
  /\ va' = rot_
  /\ upc' = "wheels"
  /\ UNCHANGED <<phase, cfgVars, cmdVars, alive_, lock, queueVars, vr, wheelSpeed,
                 steps, finiVars, hostVars, odomVars>>

\* Mutant of WheelSpeeds: the two signs exchanged.
WheelSpeedsSwapped(v, w, separation) ==
  [i \in {RIGHT, LEFT} |->
     IF i = LEFT THEN Minus(v, Over(Times(w, separation), 2))
     ELSE Plus(v, Over(Times(w, separation), 2))]

\* wheelSpeed[LEFT] = vr + va * wheelSeparation / 2.0, and RIGHT with a minus
WheelSpeeds(v, w, separation) ==
  [i \in {RIGHT, LEFT} |->
     IF i = LEFT THEN Plus(v, Over(Times(w, separation), 2))
     ELSE Minus(v, Over(Times(w, separation), 2))]

G_Wheels ==
  /\ upc = "wheels"
  /\ wheelSpeed' = WheelSpeeds(vr, va, wheelSeparation)
  /\ upc' = "unlock"
  /\ UNCHANGED <<phase, cfgVars, cmdVars, alive_, lock, queueVars, vr, va,
                 steps, finiVars, hostVars, odomVars>>

\* lock.unlock()
G_Unlock ==
  /\ upc = "unlock"
  /\ lock' = "free"
  /\ upc' = "tail"
  /\ UNCHANGED <<phase, cfgVars, cmdVars, alive_, queueVars, vr, va, wheelSpeed,
                 steps, finiVars, hostVars, odomVars>>

\* d1, d2: the distance each wheel travelled, stepTime * wd / 2 * velocity
WheelDistance(vel) == Times(Over(Times(StepTime, wheelDiameter), 2), vel)

\* Mutant of DeadReckon: the yaw is renormalised into (-pi, pi].
DeadReckonNormalized(pose, vel) ==
  LET d1 == WheelDistance(vel[LEFT])
      d2 == WheelDistance(vel[RIGHT])
      dr == Over(Plus(d1, d2), 2)
      da == Over(Minus(d1, d2), wheelSeparation)
  IN [pose |-> <<Plus(pose[1], Times(dr, cos(pose[3]))),
                 Plus(pose[2], Times(dr, sin(pose[3]))),
                 normalize_angle(Plus(pose[3], da))>>,
      vel |-> <<Over(dr, StepTime), 0, Over(da, StepTime)>>]

\* UpdateChild's dead reckoning: dr, da and the odometric pose
DeadReckon(pose, vel) ==
  LET d1 == WheelDistance(vel[LEFT])
      d2 == WheelDistance(vel[RIGHT])
      dr == Over(Plus(d1, d2), 2)
      da == Over(Minus(d1, d2), wheelSeparation)
  IN [pose |-> <<Plus(pose[1], Times(dr, cos(pose[3]))),
                 Plus(pose[2], Times(dr, sin(pose[3]))),
                 Plus(pose[3], da)>>,
      vel |-> <<Over(dr, StepTime), 0, Over(da, StepTime)>>]

\* joints[i]->SetVelocity(0, wheelSpeed[i] / (wheelDiameter / 2.0)) and
\* joints[i]->SetMaxForce(0, torque)
JointTargets(speed) ==
  [i \in {RIGHT, LEFT} |->
     [velocity |-> Over(speed[i], Over(wheelDiameter, 2)), maxForce |-> torque]]

\* write_position_data: the body's world pose becomes the odometric pose;
\* the rotation set from the Euler yaw is kept as its yaw in (-pi, pi]
write_position_data(pose) == <<pose[1], pose[2], normalize_angle(pose[3])>>

\* boost::normal_distribution(mean, sigma) fed the standard variate z
Gaussian(mean, sigma, z) == Plus(mean, Times(sigma, z))

\* Mutant of Sigma: no floor at min_variance.
SigmaUnfloored(v) == FAbs(Times(alpha, v))

\* the standard deviation of one wheel's noise
Sigma(v) == StdMax(FAbs(Times(alpha, v)), min_variance)

\* generateError's polar decomposition of the true motion and its conversion
\* to encoder ticks: [delta_linear, delta_yaw, v_left, v_right]
TrueTicks(curr_true_pos, curr_true_yaw) ==
  LET dx == Minus(curr_true_pos[1], last_true_pos_[1])
      dy == Minus(curr_true_pos[2], last_true_pos_[2])
      delta_linear == Plus(Times(dx, cos(last_true_yaw_)),
                           Times(dy, sin(last_true_yaw_)))
      delta_yaw == normalize_angle(Minus(curr_true_yaw, last_true_yaw_))
  IN [delta_linear |-> delta_linear,
      delta_yaw |-> delta_yaw,
      v_left |-> Minus(delta_linear, Over(Times(wheelSeparation, delta_yaw), 2)),
      v_right |-> Plus(delta_linear, Over(Times(wheelSeparation, delta_yaw), 2))]

\* a noisy position coordinate that stands for the length x
Quarters(x) == IF Fin(x) THEN <<4 * x, 0>> ELSE NonFinitePair

\* Mutant of OdomAnchor: the noisy delta is integrated onto the last true
\* pose.
TrueAnchor ==
  [pos |-> <<Quarters(last_true_pos_[1]), Quarters(last_true_pos_[2])>>,
   yaw |-> last_true_yaw_]

\* the pose generateError integrates the noisy delta onto: the last noisy
\* pose, last_odom_pos_ and last_odom_yaw_
OdomAnchor == [pos |-> last_odom_pos_, yaw |-> last_odom_yaw_]

\* noisy_delta * cos (or sin) of the heading `yaw`, noisy_delta being
\* 0.5 * twice
AlongCos(twice, yaw) ==
  IF ~Fin(twice) \/ ~Fin(yaw) THEN NonFinitePair
  ELSE HalfTimesTrig(twice, cos8(yaw))

AlongSin(twice, yaw) ==
  IF ~Fin(twice) \/ ~Fin(yaw) THEN NonFinitePair
  ELSE HalfTimesTrig(twice, sin8(yaw))

\* generateError, with the variates z_left and z_right drawn from rng_
generateError(curr_true_pos, curr_true_yaw, z_left, z_right) ==
  LET t == TrueTicks(curr_true_pos, curr_true_yaw)
      noisy_v_left == Gaussian(t.v_left, Sigma(t.v_left), z_left)
      noisy_v_right == Gaussian(t.v_right, Sigma(t.v_right), z_right)
      twice_noisy_delta_linear == Plus(noisy_v_left, noisy_v_right)
      noisy_delta_yaw == Over(Minus(noisy_v_right, noisy_v_left), wheelSeparation)
  IN [curr_odom_pos |->
        <<PairPlus(OdomAnchor.pos[1],
                   AlongCos(twice_noisy_delta_linear, OdomAnchor.yaw)),
          PairPlus(OdomAnchor.pos[2],
                   AlongSin(twice_noisy_delta_linear, OdomAnchor.yaw))>>,
      curr_odom_yaw |-> normalize_angle(Plus(OdomAnchor.yaw, noisy_delta_yaw)),
      v_left |-> noisy_v_left,
      v_right |-> noisy_v_right]

\* double const beta = 1 ("FIXME: Hack")
beta == 1

\* pow(beta * stddev, 2), stddev taken from the movement that is reported
ReportedVariance(movement) ==
  LET stddev == StdMax(FAbs(Times(alpha, movement)), min_variance)
  IN Times(Times(beta, stddev), Times(beta, stddev))

\* Mutant of Throttled: a call exactly rate_ ms after the last is throttled
\* too.
ThrottledInclusive(curr_time) == curr_time - last_time_ <= rate_

\* delta_time < 0.001 * rate_, both sides in ms
Throttled(curr_time) == curr_time - last_time_ < rate_

\* the three messages of one publish_odometry call
Messages(curr_time, update) ==
  << [type |-> "odom", stamp |-> curr_time,
      position |-> update.curr_odom_pos, yaw |-> update.curr_odom_yaw],
     [type |-> "wheel", stamp |-> curr_time,
      timestep |-> curr_time - last_time_,
      separation |-> wheelSeparation,
      left |-> [movement |-> update.v_left,
                variance |-> ReportedVariance(update.v_left)],
      right |-> [movement |-> update.v_right,
                 variance |-> ReportedVariance(update.v_right)]],
     [type |-> "tf", stamp |-> curr_time,
      position |-> update.curr_odom_pos, yaw |-> update.curr_odom_yaw] >>

\* publish_odometry, the body's pose being `pose` and rng_ drawing from `draws`
publish_odometry(pose, draws) ==
  LET curr_time == now
  IN IF Throttled(curr_time)
     THEN /\ published' = <<>>
          /\ UNCHANGED <<last_time_, last_true_pos_, last_true_yaw_,
                         last_odom_pos_, last_odom_yaw_, drawn>>
     ELSE \E z_left, z_right \in draws :
            LET curr_true_pos == <<pose[1], pose[2]>>
                curr_true_yaw == pose[3]
                update == generateError(curr_true_pos, curr_true_yaw,
                                        z_left, z_right)
            IN /\ drawn' = <<z_left, z_right>>
               /\ published' = Messages(curr_time, update)
               /\ last_time_' = curr_time
               /\ last_true_pos_' = curr_true_pos
               /\ last_true_yaw_' = curr_true_yaw
               /\ last_odom_pos_' = update.curr_odom_pos
               /\ last_odom_yaw_' = update.curr_odom_yaw

\* The rest of UpdateChild after GetPositionCmd: dead reckoning, the joint
\* targets, write_position_data, publish_odometry.
U_Tail(draws) ==
  /\ upc = "tail"
  /\ LET dead == DeadReckon(odomPose, jointVel)
     IN /\ odomPose' = dead.pose
        /\ odomVel' = dead.vel
        /\ jointCmd' = JointTargets(wheelSpeed)
        /\ worldPose' = write_position_data(dead.pose)
        /\ publish_odometry(write_position_data(dead.pose), draws)
  /\ upc' = "idle"
  /\ UNCHANGED <<phase, cfgVars, cmdVars, alive_, lock, queueVars, vr, va,
                 wheelSpeed, steps, finiVars, jointVel, now>>

\* ------------------------------------------------------------ specification

\* The command path: Load, the command source, QueueThread and its
\* callbacks, FiniChild, and UpdateChild under a steady host.
Next ==
  \/ \E sdf \in Sdfs, hasLeft, hasRight \in BOOLEAN : Load(sdf, hasLeft, hasRight)
  \/ \E msg \in Cmds : Arrive(msg)
  \/ Q_Test
  \/ Q_CallAvailable
  \/ CB_Lock
  \/ CB_WriteX
  \/ CB_WriteRot
  \/ CB_Unlock
  \/ F_Alive
  \/ F_Clear
  \/ F_Disable
  \/ F_Shutdown
  \/ F_Join
  \/ WorldUpdateStart(SteadyVels, SteadyAdvances)
  \/ G_Lock
  \/ G_ReadX
  \/ G_ReadRot
  \/ G_Wheels
  \/ G_Unlock
  \/ U_Tail(SteadyDraws)

Spec == Init /\ [][Next]_vars

\* The odometry path: Load and UpdateChild under every host input, with no
\* command sent and FiniChild not called.
NextOdom ==
  \/ \E sdf \in Sdfs, hasLeft, hasRight \in BOOLEAN : Load(sdf, hasLeft, hasRight)
  \/ WorldUpdateStart(JointVels, TimeAdvances)
  \/ G_Lock
  \/ G_ReadX
  \/ G_ReadRot
  \/ G_Wheels
  \/ G_Unlock
  \/ U_Tail(Draws)

SpecOdom == Init /\ [][NextOdom]_vars

\* What each thread does next, once it has been started.
QueueThreadStep ==
  Q_Test \/ Q_CallAvailable \/ CB_Lock \/ CB_WriteX \/ CB_WriteRot \/ CB_Unlock

FiniChildStep == F_Clear \/ F_Disable \/ F_Shutdown \/ F_Join

\* GetPositionCmd between its lock() and its unlock()
CriticalSectionStep == G_ReadX \/ G_ReadRot \/ G_Wheels \/ G_Unlock

\* The threads are scheduled fairly: QueueThread and a FiniChild that was
\* called run their next instruction when they can (a lock() when it finds
\* the mutex free from then on), and GetPositionCmd, once it holds the
\* mutex, runs on to its unlock().  The host may stop stepping, the command
\* source may stop sending, and FiniChild need never be called.
FairSpec ==
  /\ Spec
  /\ WF_vars(QueueThreadStep)
  /\ WF_vars(FiniChildStep)
  /\ WF_vars(CriticalSectionStep)

\* --------------------------------------------------------------------- claims

\* the step of UpdateChild that runs everything after GetPositionCmd
TailStep == upc = "tail" /\ upc' = "idle"

\* that step, when publish_odometry was not throttled
PublishStep == TailStep /\ published' # <<>>

\* C1: under any interleaving of cmdVelCallback and GetPositionCmd, the
\* (linear, angular) pair the step has read comes from one single command
\* message, or is the initial pair of zeros: never linear from one command
\* and angular from another.
C1_NoTornRead ==
  upc \in {"wheels", "unlock", "tail", "idle"}
    => [linear |-> vr, angular |-> va] \in Cmds \cup {ZeroCmd}

\* C1 witness: the step has read one command whole while the callback of a
\* different command waits for the mutex.
C1_Witness ==
  /\ upc = "unlock"
  /\ [linear |-> vr, angular |-> va] \in Cmds
  /\ qpc = "cb_lock"
  /\ cbMsg \in Cmds
  /\ cbMsg # [linear |-> vr, angular |-> va]

\* left = v + w * separation / 2 and right = v - w * separation / 2
ExpectedWheelSpeeds(cmd) ==
  [i \in {RIGHT, LEFT} |->
     IF i = LEFT THEN cmd.linear + (cmd.angular * wheelSeparation) \div 2
     ELSE cmd.linear - (cmd.angular * wheelSeparation) \div 2]

\* C2: when GetPositionCmd has set the wheel targets (and still holds the
\* mutex), they are v + w*separation/2 and v - w*separation/2 for (v, w) the
\* command stored last, or (0, 0) when none was stored since Load: both
\* targets are then 0.
C2_WheelTargets ==
  upc = "unlock" =>
    /\ wheelSpeed = ExpectedWheelSpeeds(latest)
    /\ (latest = ZeroCmd => wheelSpeed = [i \in {RIGHT, LEFT} |-> 0])

\* C2 witness: the second step computes its targets from a command, the
\* first step having computed other non-zero targets from another.
C2_Witness ==
  /\ upc = "unlock"
  /\ steps = 2
  /\ latest \in Cmds
  /\ wheelSeparation = 1 /\ wheelDiameter = 2
  /\ jointCmd[LEFT].velocity # 0
  /\ jointCmd[RIGHT].velocity # wheelSpeed[RIGHT]
  /\ wheelSpeed[LEFT] # wheelSpeed[RIGHT]

\* C3 as claimed: in no reachable state does the callback wait for the
\* step, or the step for the callback.
C3_NeverWaits ==
  /\ ~(upc = "lock" /\ lock = "cb")
  /\ ~(qpc = "cb_lock" /\ lock = "step")

\* C3 as amended: either side waits only for the mutex, and only while the
\* other is inside its critical section, whose next instruction can always
\* run; with the mutex free the step's own lock() can run whatever the
\* command queue holds, so the step never waits for a command.
C3_WaitsOnlyForCriticalSection ==
  /\ (upc = "lock" /\ lock # "free") =>
        /\ lock = "cb"
        /\ qpc \in {"cb_x", "cb_rot", "cb_unlock"}
        /\ ENABLED (CB_WriteX \/ CB_WriteRot \/ CB_Unlock)
  /\ (qpc = "cb_lock" /\ lock # "free") =>
        /\ lock = "step"
        /\ upc \in {"read_x", "read_rot", "wheels", "unlock"}
        /\ ENABLED (G_ReadX \/ G_ReadRot \/ G_Wheels \/ G_Unlock)
  /\ (upc = "lock" /\ lock = "free") => ENABLED G_Lock
  /\ (qpc = "cb_lock" /\ lock = "free") => ENABLED CB_Lock

\* C3 witness: the step waits for the mutex while the callback holds it.
C3_Witness == upc = "lock" /\ lock = "cb" /\ qpc = "cb_rot"

\* C4: a publish_odometry call made less than rate_ ms after last_time_
\* publishes nothing and leaves last_time_ and the four pose-history fields
\* alone; any other call sends exactly one odometry, one wheel-measurement
\* and one transform message, all stamped now, and sets last_time_ to now.
C4_Throttle ==
  [][TailStep =>
       IF now - last_time_ < rate_
       THEN /\ published' = <<>>
            /\ UNCHANGED <<last_time_, last_true_pos_, last_true_yaw_,
                           last_odom_pos_, last_odom_yaw_>>
       ELSE /\ Len(published') = 3
            /\ published'[1].type = "odom"
            /\ published'[2].type = "wheel"
            /\ published'[3].type = "tf"
            /\ \A i \in 1..3 : published'[i].stamp = now
            /\ last_time_' = now]_vars

\* C4 witness: a throttled call after a call that published.
C4_Witness ==
  /\ upc = "idle" /\ steps = 2
  /\ published = <<>>
  /\ last_time_ > 0 /\ last_time_ < now
  /\ rate_ > 0

\* the true pose publish_odometry reads in the step being taken
TruePosNext == <<worldPose'[1], worldPose'[2]>>

TrueYawNext == worldPose'[3]

\* v_left = delta_linear - 0.5*separation*delta_yaw and
\* v_right = delta_linear + 0.5*separation*delta_yaw of the true motion
NoiselessLeft ==
  LET t == TrueTicks(TruePosNext, TrueYawNext)
  IN Minus(t.delta_linear, Over(Times(wheelSeparation, t.delta_yaw), 2))

NoiselessRight ==
  LET t == TrueTicks(TruePosNext, TrueYawNext)
  IN Plus(t.delta_linear, Over(Times(wheelSeparation, t.delta_yaw), 2))

\* C5 as claimed: with alpha = 0 the movements of the wheel measurement are
\* the noiseless decomposition values exactly.
C5_ExactWhenAlphaZero ==
  [][(PublishStep /\ alpha = 0) =>
       /\ published'[2].left.movement = NoiselessLeft
       /\ published'[2].right.movement = NoiselessRight]_vars

\* C5 as amended: with alpha = 0 each movement is the noiseless value plus
\* min_variance times the standard normal variate drawn for that wheel (the
\* standard deviation is floored at min_variance, it is not 0), whatever the
\* displacement.
C5_FlooredNoiseWhenAlphaZero ==
  [][(PublishStep /\ alpha = 0) =>
       /\ published'[2].left.movement
            = Plus(NoiselessLeft, Times(min_variance, drawn'[1]))
       /\ published'[2].right.movement
            = Plus(NoiselessRight, Times(min_variance, drawn'[2]))]_vars

\* C5 witness: alpha = 0, the robot moved, and a measurement was published
\* whose two variates differ and are not 0.
C5_Witness ==
  /\ alpha = 0 /\ wheelSeparation > 0 /\ wheelDiameter > 0
  /\ published # <<>>
  /\ drawn = <<1, -1>>
  /\ published[2].left.movement > 1

\* C6 as claimed, for a positive geometry: each reported variance is
\* non-negative and is (beta * sigma)^2 for sigma = max(|alpha * v|,
\* min_variance) of the true noise-free delta v the wheel's noise was drawn
\* around.
C6_VarianceOfDrawnSigma ==
  [][(PublishStep /\ wheelSeparation > 0 /\ wheelDiameter > 0) =>
       LET sl == StdMax(FAbs(Times(alpha, NoiselessLeft)), min_variance)
           sr == StdMax(FAbs(Times(alpha, NoiselessRight)), min_variance)
       IN /\ published'[2].left.variance >= 0
          /\ published'[2].right.variance >= 0
          /\ published'[2].left.variance = (beta * sl) * (beta * sl)
          /\ published'[2].right.variance = (beta * sr) * (beta * sr)]_vars

\* C7 as claimed: the plugin never runs with a wheelSeparation or a
\* wheelDiameter that is not strictly positive.
C7_RunsOnlyWithPositiveGeometry ==
  phase = "running" => wheelSeparation > 0 /\ wheelDiameter > 0

\* the order of cmdVelCallback's instructions
CallbackOrder ==
  /\ qpc = "cb_lock" => qpc' \in {"cb_lock", "cb_x"}
  /\ qpc = "cb_x" => qpc' \in {"cb_x", "cb_rot"}
  /\ qpc = "cb_rot" => qpc' \in {"cb_rot", "cb_unlock"}
  /\ qpc = "cb_unlock" => qpc' \in {"cb_unlock", "test"}

\* C8: once FiniChild has cleared alive_ and disabled the queue, QueueThread
\* leaves its loop and join returns; join returns only after QueueThread has
\* left; a callback that has begun runs each of its instructions in order
\* and, when it was running as FiniChild began, has stored its command by
\* the time join returns; after join has returned no callback begins and
\* the command is not written.
C8_CooperativeShutdown ==
  /\ (fpc = "shutdown") ~> (fpc = "done" /\ qpc = "exited")
  /\ [](fpc = "done" => qpc = "exited" /\ lock # "cb")
  /\ [](fpc = "done" /\ inFlightAtFini => latest = cbMsg)
  /\ [][CallbackOrder]_vars
  /\ [][fpc = "done" => (qpc' = qpc /\ x_' = x_ /\ rot_' = rot_)]_vars

\* C8 witness: join has returned, QueueThread has left, and the callback
\* that was waiting for the mutex as FiniChild began has stored its command.
C8_Witness ==
  /\ fpc = "done" /\ qpc = "exited"
  /\ inFlightAtFini
  /\ cbMsg \in Cmds /\ latest = cbMsg /\ x_ = cbMsg.linear /\ rot_ = cbMsg.angular

\* the noisy delta the emitted wheel movements stand for:
\* twice noisy_delta_linear, and noisy_delta_yaw
EmittedTwiceLinear ==
  Plus(published'[2].left.movement, published'[2].right.movement)

EmittedDeltaYaw ==
  Over(Minus(published'[2].right.movement, published'[2].left.movement),
       wheelSeparation)

\* C9: the noisy pose starts at the origin with yaw 0; on every tick that is
\* not throttled the emitted noisy pose is the last emitted noisy pose
\* advanced by the noisy delta along the last noisy yaw, and the pose
\* history then holds the current true pose and the noisy pose just emitted.
C9_NoiseCompounds ==
  /\ (last_odom_pos_ = OriginPair /\ last_odom_yaw_ = 0
        /\ last_true_pos_ = Origin /\ last_true_yaw_ = 0)
  /\ [][PublishStep =>
          /\ published'[1].position =
               <<PairPlus(last_odom_pos_[1],
                          AlongCos(EmittedTwiceLinear, last_odom_yaw_)),
                 PairPlus(last_odom_pos_[2],
                          AlongSin(EmittedTwiceLinear, last_odom_yaw_))>>
          /\ published'[1].yaw =
               normalize_angle(Plus(last_odom_yaw_, EmittedDeltaYaw))
          /\ published'[3].position = published'[1].position
          /\ published'[3].yaw = published'[1].yaw
          /\ last_true_pos_' = TruePosNext
          /\ last_true_yaw_' = TrueYawNext
          /\ last_odom_pos_' = published'[1].position
          /\ last_odom_yaw_' = published'[1].yaw]_vars

\* C9 witness: a second publish, after a first at a later time than 0, whose
\* noisy pose is finite, off the true pose and off a quarter-turn heading.
C9_Witness ==
  /\ steps = 2 /\ upc = "idle"
  /\ published # <<>>
  /\ published[2].timestep < published[2].stamp
  /\ FinPair(last_odom_pos_[1]) /\ Fin(last_odom_yaw_) /\ Fin(last_true_pos_[1])
  /\ last_odom_pos_[1][2] # 0
  /\ last_odom_pos_[1] # Quarters(last_true_pos_[1])
  /\ last_odom_yaw_ # last_true_yaw_

\* d1, d2, dr and da of the dead reckoning, from the joint velocities
ClaimedDr ==
  Over(Plus(Times(Over(Times(StepTime, wheelDiameter), 2), jointVel[LEFT]),
            Times(Over(Times(StepTime, wheelDiameter), 2), jointVel[RIGHT])), 2)

ClaimedDa ==
  Over(Minus(Times(Over(Times(StepTime, wheelDiameter), 2), jointVel[LEFT]),
             Times(Over(Times(StepTime, wheelDiameter), 2), jointVel[RIGHT])),
       wheelSeparation)

\* C10: every UpdateChild call, throttled or not, integrates the wheel
\* velocities into odomPose (x += dr*cos(yaw), y += dr*sin(yaw), yaw += da,
\* the yaw not renormalised) and writes that pose back as the body's world
\* pose, which is the pose publish_odometry then reads.
C10_DeadReckonEveryStep ==
  [][TailStep =>
       /\ odomPose' = <<Plus(odomPose[1], Times(ClaimedDr, cos(odomPose[3]))),
                        Plus(odomPose[2], Times(ClaimedDr, sin(odomPose[3]))),
                        Plus(odomPose[3], ClaimedDa)>>
       /\ worldPose'[1] = odomPose'[1]
       /\ worldPose'[2] = odomPose'[2]
       /\ worldPose'[3] = normalize_angle(odomPose'[3])
       /\ (published' # <<>> =>
             last_true_pos_' = <<odomPose'[1], odomPose'[2]>>)]_vars

\* C10 witness: a throttled step has moved odomPose, whose yaw now lies
\* outside (-pi, pi], and the body's pose with it.
C10_Witness ==
  /\ steps = 2 /\ upc = "idle"
  /\ published = <<>> /\ last_time_ > 0
  /\ odomPose[3] = -HalfTurn
  /\ worldPose[3] = HalfTurn
  /\ <<odomPose[1], odomPose[2]>> # last_true_pos_
  /\ <<worldPose[1], worldPose[2]>> = <<odomPose[1], odomPose[2]>>

====
